---- MODULE Spec2Model ----
(***************************************************************************)
(* nodeImageCombiner: two images are normalized to a common size and       *)
(* combined column-wise on node-canvas canvases.                           *)
(*                                                                         *)
(* The repository holds two variants of the program:                       *)
(*   "stretch": src/imageCombiner.ts, src/unnamed/part_000                 *)
(*   "fit"    : src/imageCombiner.js, src/unnamed/part_001                 *)
(***************************************************************************)
EXTENDS Integers, Sequences, FiniteSets, TLC

(***************************************************************************)
(* IEEE-754 binary64 arithmetic, as JavaScript numbers compute it.         *)
(* `img.width / img.height`, `targetWidth / aspectRatio` and               *)
(* `targetHeight * aspectRatio` are double operations, each rounded to     *)
(* nearest (ties to even) at 53 significant bits.  A double is the record  *)
(* [m, e] standing for m * 2^e with 2^52 <= m < 2^53; m is a natural       *)
(* number held in four limbs of 18 bits, least significant first.          *)
(* The helpers are functions, so that an argument is a value when the     *)
(* body reads it.                                                          *)
(***************************************************************************)
LimbBits == 18

LimbBase == 2 ^ LimbBits

Big == Seq(Int)

Double == [ m : Big, e : Int ]

BFromInt[n \in Nat] == << n % LimbBase, n \div LimbBase, 0, 0 >>

\* the value of a limb number below 2^31
BToInt[x \in Big] == x[1] + x[2] * LimbBase

\* carry propagation over limbs that may hold more than 18 bits
BCarry[x \in Big] ==
    LET t2 == x[2] + (x[1] \div LimbBase)
        t3 == x[3] + (t2 \div LimbBase)
        t4 == x[4] + (t3 \div LimbBase)
    IN  << x[1] % LimbBase, t2 % LimbBase, t3 % LimbBase, t4 >>

BDoubleAdd[x \in Big, bit \in Nat] ==
    BCarry[<< 2 * x[1] + bit, 2 * x[2], 2 * x[3], 2 * x[4] >>]

BMulSmall[x \in Big, k \in Nat] == BCarry[<< k * x[1], k * x[2], k * x[3], k * x[4] >>]

BInc[x \in Big] == BCarry[<< x[1] + 1, x[2], x[3], x[4] >>]

BIsZero[x \in Big] == x[1] = 0 /\ x[2] = 0 /\ x[3] = 0 /\ x[4] = 0

BGeq[x \in Big, y \in Big] ==
    IF x[4] # y[4] THEN x[4] > y[4]
    ELSE IF x[3] # y[3] THEN x[3] > y[3]
    ELSE IF x[2] # y[2] THEN x[2] > y[2]
    ELSE x[1] >= y[1]

\* x - y for x >= y
BSub[x \in Big, y \in Big] ==
    LET b1 == IF x[1] - y[1] < 0 THEN 1 ELSE 0
        b2 == IF x[2] - y[2] - b1 < 0 THEN 1 ELSE 0
        b3 == IF x[3] - y[3] - b2 < 0 THEN 1 ELSE 0
    IN  << x[1] - y[1] + b1 * LimbBase,
           x[2] - y[2] - b1 + b2 * LimbBase,
           x[3] - y[3] - b2 + b3 * LimbBase,
           x[4] - y[4] - b3 >>

BitLen[n \in Nat] == IF n = 0 THEN 0 ELSE 1 + BitLen[n \div 2]

BBitLen[x \in Big] ==
    IF x[4] # 0 THEN 3 * LimbBits + BitLen[x[4]]
    ELSE IF x[3] # 0 THEN 2 * LimbBits + BitLen[x[3]]
    ELSE IF x[2] # 0 THEN LimbBits + BitLen[x[2]]
    ELSE BitLen[x[1]]

BLimb[x \in Big, i \in Nat] == IF i \in 1..4 THEN x[i] ELSE 0

\* floor(x / 2^s)
BShr[x \in Big, s \in Nat] ==
    << (BLimb[x, 1 + (s \div LimbBits)] \div (2 ^ (s % LimbBits)))
         + (BLimb[x, 2 + (s \div LimbBits)] % (2 ^ (s % LimbBits)))
           * (2 ^ (LimbBits - (s % LimbBits))),
       (BLimb[x, 2 + (s \div LimbBits)] \div (2 ^ (s % LimbBits)))
         + (BLimb[x, 3 + (s \div LimbBits)] % (2 ^ (s % LimbBits)))
           * (2 ^ (LimbBits - (s % LimbBits))),
       (BLimb[x, 3 + (s \div LimbBits)] \div (2 ^ (s % LimbBits)))
         + (BLimb[x, 4 + (s \div LimbBits)] % (2 ^ (s % LimbBits)))
           * (2 ^ (LimbBits - (s % LimbBits))),
       BLimb[x, 4 + (s \div LimbBits)] \div (2 ^ (s % LimbBits)) >>

\* bit i of x (bit 0 is the least significant)
BBit[x \in Big, i \in Nat] ==
    (BLimb[x, (i \div LimbBits) + 1] \div (2 ^ (i % LimbBits))) % 2

\* x mod 2^s # 0
BLowNonZero[x \in Big, s \in Nat] ==
    \E i \in 1..4 :
        IF i * LimbBits <= s THEN x[i] # 0
        ELSE IF (i - 1) * LimbBits < s THEN x[i] % (2 ^ (s - (i - 1) * LimbBits)) # 0
        ELSE FALSE

\* y moved up by q limbs
BLimbShl[y \in Big, q \in Nat] ==
    << IF q = 0 THEN y[1] ELSE 0,
       IF q <= 1 THEN y[2 - q] ELSE 0,
       IF q <= 2 THEN y[3 - q] ELSE 0,
       IF q <= 3 THEN y[4 - q] ELSE 0 >>

\* x * 2^s; the bit shift is split so that no limb product leaves 31 bits
BShl[x \in Big, s \in Nat] ==
    BLimbShl[BMulSmall[BMulSmall[x, 2 ^ ((s % LimbBits) \div 2)],
                       2 ^ ((s % LimbBits) - ((s % LimbBits) \div 2))],
             s \div LimbBits]

MantBits == 53

\* t, the leading 53 bits of a longer number, moved up by one if `up`
FRoundUp[t \in Big, e \in Int, up \in BOOLEAN] ==
    IF ~up THEN [ m |-> t, e |-> e ]
    ELSE IF BBitLen[BInc[t]] > MantBits THEN [ m |-> BShr[BInc[t], 1], e |-> e + 1 ]
    ELSE [ m |-> BInc[t], e |-> e ]

\* round the natural number p * 2^e (p # 0) to the nearest double, ties to even
FRoundAt[p \in Big, e \in Int, len \in Nat] ==
    IF len <= MantBits
    THEN [ m |-> BShl[p, MantBits - len], e |-> e - (MantBits - len) ]
    ELSE FRoundUp[ BShr[p, len - MantBits], e + (len - MantBits),
                   /\ BBit[p, len - MantBits - 1] = 1
                   /\ \/ BLowNonZero[p, len - MantBits - 1]
                      \/ BBit[p, len - MantBits] = 1 ]

FRound[p \in Big, e \in Int] == FRoundAt[p, e, BBitLen[p]]

DigitBits == 9

\* the digit of one step: estimated from the leading 18 bits of d, which
\* overshoots by at most one
DivDigit[r9 \in Big, d \in Big, qhat \in Nat] ==
    IF BGeq[r9, BMulSmall[d, qhat]] THEN qhat ELSE qhat - 1

DivEstimate[r9 \in Big, d \in Big, sh \in Nat] ==
    DivDigit[r9, d, BToInt[BShr[r9, sh]] \div BToInt[BShr[d, sh]]]

\* the state of a long division: remainder and quotient so far
DivState == [ r : Big, q : Big ]

DivApply[s \in DivState, d \in Big, r9 \in Big, dig \in Nat] ==
    [ r |-> BSub[r9, BMulSmall[d, dig]],
      q |-> BCarry[<< 2 ^ DigitBits * s.q[1] + dig, 2 ^ DigitBits * s.q[2],
                      2 ^ DigitBits * s.q[3], 2 ^ DigitBits * s.q[4] >>] ]

\* one step of long division by d in digits of 9 bits: the state is the
\* remainder r < d and the quotient q produced so far
DivStep[s \in DivState, d \in Big] ==
    DivApply[s, d, BMulSmall[s.r, 2 ^ DigitBits],
             DivEstimate[BMulSmall[s.r, 2 ^ DigitBits], d,
                         IF BBitLen[d] > LimbBits THEN BBitLen[d] - LimbBits ELSE 0]]

DivSteps == 6

\* floor(n * 2^54 / d) for d <= n < 2d, by six steps of 9 bits after the
\* leading 1, with a sticky bit appended below that tells an inexact quotient
DivBits[n \in Big, d \in Big] ==
    LET s6 == DivStep[DivStep[DivStep[DivStep[DivStep[DivStep[
                  [ r |-> BSub[n, d], q |-> BFromInt[1] ], d], d], d], d], d], d]
    IN  BDoubleAdd[s6.q, IF BIsZero[s6.r] THEN 0 ELSE 1]

\* the double nearest to (n / d) * 2^e for limb numbers of the same bit length
FQuotAligned[n \in Big, d \in Big, e \in Int] ==
    IF BGeq[n, d]
    THEN FRound[DivBits[n, d], e - DivSteps * DigitBits - 1]
    ELSE FRound[DivBits[BDoubleAdd[n, 0], d], e - 1 - DivSteps * DigitBits - 1]

FQuotLen[n \in Big, en \in Int, d \in Big, ed \in Int, ln \in Nat, ld \in Nat] ==
    IF ld > ln THEN FQuotAligned[BShl[n, ld - ln], d, (en - (ld - ln)) - ed]
    ELSE FQuotAligned[n, BShl[d, ln - ld], en - (ed - (ln - ld))]

\* the double nearest to (n * 2^en) / (d * 2^ed), n and d limb numbers # 0
FQuot[n \in Big, en \in Int, d \in Big, ed \in Int] ==
    FQuotLen[n, en, d, ed, BBitLen[n], BBitLen[d]]

FZero == [ m |-> << 0, 0, 0, 0 >>, e |-> 0 ]

\* a / b on two positive integers (img.width / img.height)
FDivInt[a \in Nat, b \in Nat] == FQuot[BFromInt[a], 0, BFromInt[b], 0]

\* k / x for an integer k >= 0 and a double x > 0 (targetWidth / aspectRatio)
FIntDiv[k \in Nat, x \in Double] ==
    IF k = 0 THEN FZero ELSE FQuot[BFromInt[k], 0, x.m, x.e]

\* k * x for an integer k >= 0 and a double x > 0 (targetHeight * aspectRatio)
FMulInt[k \in Nat, x \in Double] ==
    IF k = 0 THEN FZero ELSE FRound[BMulSmall[x.m, k], x.e]

\* x > 1 for a double x > 0
FGtOne[x \in Double] ==
    \/ x.e > -(MantBits - 1)
    \/ x.e = -(MantBits - 1) /\ BLowNonZero[x.m, MantBits - 1]

\* Math.round on a non-negative double below 2^30: the nearest integer,
\* a tie going up
MathRound[x \in Double] ==
    IF BIsZero[x.m] THEN 0
    ELSE IF x.e >= 0 THEN BToInt[BShl[x.m, x.e]]
    ELSE IF -x.e > MantBits THEN 0
    ELSE BToInt[BShr[x.m, -x.e]] + BBit[x.m, -x.e - 1]

Min(a, b) == IF a < b THEN a ELSE b

(***************************************************************************)
(* Canvases.  In the pipeline a canvas is known by its size; its pixels    *)
(* are the library's resampling of the file and are not modelled there.    *)
(***************************************************************************)
NoCanvas == [ width |-> -1, height |-> -1 ]

CreateCanvas(w, h) == [ width |-> w, height |-> h ]

NoError == [ kind |-> "none", path |-> 0 ]

\* mutant: the message names the other path
FailedToLoadOther(path) == [ kind |-> "Failed to load image from", path |-> 3 - path ]

\* loadImageWithPath's catch: `Failed to load image from ${filePath}: ...`
FailedToLoad(path) == [ kind |-> "Failed to load image from", path |-> path ]

\* the fit variant awaits loadImage directly: the library's own rejection
LoadImageRejection == [ kind |-> "loadImage rejection", path |-> 0 ]

\* getImageData / drawImage on a canvas with a zero side throws
CanvasError == [ kind |-> "canvas error", path |-> 0 ]

\* loadImage: the decoded image has the file's natural size
LoadImage(size, ok) ==
    IF ok THEN [ error |-> NoError, canvas |-> [ width |-> size[1], height |-> size[2] ] ]
    ELSE [ error |-> LoadImageRejection, canvas |-> NoCanvas ]

\* loadImageWithPath: loadImage, a rejection rethrown with the path in it
LoadImageWithPath(path, size, ok) ==
    IF LoadImage(size, ok).error = NoError THEN LoadImage(size, ok)
    ELSE [ error |-> FailedToLoad(path), canvas |-> NoCanvas ]

\* newWidth, newHeight from aspectRatio
FitFromRatio[aspectRatio \in Double, targetWidth \in Nat, targetHeight \in Nat] ==
    IF FGtOne[aspectRatio]
    THEN << targetWidth, MathRound[FIntDiv[targetWidth, aspectRatio]] >>
    ELSE << MathRound[FMulInt[targetHeight, aspectRatio]], targetHeight >>

\* mutant: the aspect ratio taken as height / width
FitSizeInverted(sw, sh, targetWidth, targetHeight) ==
    FitFromRatio[FDivInt[sh, sw], targetWidth, targetHeight]

\* the fit variant's size computation
FitSize(sw, sh, targetWidth, targetHeight) ==
    FitFromRatio[FDivInt[sw, sh], targetWidth, targetHeight]

\* mutant: the stretch variant keeps the aspect ratio as the fit variant does
StretchSizeKeepsRatio(sw, sh, targetWidth, targetHeight) ==
    FitSize(sw, sh, targetWidth, targetHeight)

\* the stretch variant draws into a canvas of the requested size
StretchSize(sw, sh, targetWidth, targetHeight) == << targetWidth, targetHeight >>

\* loadAndResizeImage of either variant: `size` is the natural size of the
\* file at `path`, `ok` whether its decoding succeeds
LoadAndResizeImage(v, path, size, ok, targetWidth, targetHeight) ==
    LET img == IF v = "stretch" THEN LoadImageWithPath(path, size, ok)
               ELSE LoadImage(size, ok)
    IN  IF img.error # NoError
        THEN [ error |-> img.error, canvas |-> NoCanvas ]
        ELSE LET new == IF v = "stretch"
                        THEN StretchSize(img.canvas.width, img.canvas.height,
                                         targetWidth, targetHeight)
                        ELSE FitSize(img.canvas.width, img.canvas.height,
                                     targetWidth, targetHeight)
             IN  [ error |-> NoError, canvas |-> CreateCanvas(new[1], new[2]) ]

\* the record kept of one call of loadAndResizeImage
CallRecord(path, targetWidth, targetHeight, res) ==
    [ path |-> path, targetWidth |-> targetWidth, targetHeight |-> targetHeight,
      error |-> res.error, canvas |-> res.canvas ]

BoxWidth == 400

BoxHeight == 300

\* mutant: the first image's size taken as the common size
CommonSizeOfFirst(a, b) == << a.width, a.height >>

\* commonWidth, commonHeight
CommonSize(a, b) == << Min(a.width, b.width), Min(a.height, b.height) >>

\* combineImages on canvases known by their size: the result has img1's size
CombineSizes(img1, img2) ==
    IF img1.width = 0 \/ img1.height = 0 \/ img2.width = 0 \/ img2.height = 0
    THEN [ error |-> CanvasError, canvas |-> NoCanvas ]
    ELSE [ error |-> NoError, canvas |-> CreateCanvas(img1.width, img1.height) ]

(***************************************************************************)
(* Canvases with pixels.  The canvas is the image buffer of the data       *)
(* model: a rectangular grid of RGBA pixels, row-major, each channel an    *)
(* 8-bit unsigned integer.  `data` is the flat byte sequence, of length    *)
(* width * height * 4.                                                     *)
(***************************************************************************)
NoImage == [ width |-> -1, height |-> -1, data |-> << >> ]

\* getImageData(0, 0, width, height): the bytes of the whole canvas
GetImageData(canvas) ==
    [ width |-> canvas.width, height |-> canvas.height,
      data |-> [ k \in 1..Len(canvas.data) |-> canvas.data[k] ] ]

\* putImageData of a whole ImageData at (0, 0) into a canvas of its size
PutImageData(canvas, imgData) ==
    [ canvas EXCEPT !.data = [ k \in 1..Len(imgData.data) |-> imgData.data[k] ] ]

\* drawImage(img1, 0, 0) on the new canvas of img1's size: a copy of img1
DrawImage(canvas, img1) == [ canvas EXCEPT !.data = img1.data ]

Undefined == -1

\* a read of a typed array: undefined past its end
At(data, idx) == IF idx < Len(data) THEN data[idx + 1] ELSE Undefined

\* a store into a Uint8ClampedArray: undefined is stored as 0
ClampStore(v) == IF v = Undefined THEN 0 ELSE v

Index1(x, y, width1) == (y * width1 + x) * 4

\* mutant: the second image read one column to the right
Index2NextColumn(x, y, width2) == (y * width2 + x + 1) * 4

Index2(x, y, width2) == (y * width2 + x) * 4

\* mutant: the whole pixel copied, alpha included
CopyPixelWithAlpha(d1, d2, i, j) ==
    [ d1 EXCEPT ![i + 1] = ClampStore(At(d2, j)),
                ![i + 2] = ClampStore(At(d2, j + 1)),
                ![i + 3] = ClampStore(At(d2, j + 2)),
                ![i + 4] = ClampStore(At(d2, j + 3)) ]

\* the body of the loop: three channels of imgData2 at j into imgData1 at i
CopyPixel(d1, d2, i, j) ==
    [ d1 EXCEPT ![i + 1] = ClampStore(At(d2, j)),
                ![i + 2] = ClampStore(At(d2, j + 1)),
                ![i + 3] = ClampStore(At(d2, j + 2)) ]

\* for (x = 0; x < img1.width; x += 2) for (y = 0; y < img1.height; y++)
RECURSIVE CombineLoop(_, _, _, _, _, _, _)
CombineLoop(x, y, d1, d2, width1, height1, width2) ==
    IF x >= width1 THEN d1
    ELSE IF y >= height1 THEN CombineLoop(x + 2, 0, d1, d2, width1, height1, width2)
    ELSE CombineLoop(x, y + 1,
                     CopyPixel(d1, d2, Index1(x, y, width1), Index2(x, y, width2)),
                     d2, width1, height1, width2)

\* combineImages on canvases with a positive size
CombineImages(img1, img2) ==
    LET created  == [ width |-> img1.width, height |-> img1.height, data |-> << >> ]
        canvas   == DrawImage(created, img1)
        imgData1 == GetImageData(canvas)
        imgData2 == GetImageData(img2)
        combined1 == [ imgData1 EXCEPT !.data =
                        CombineLoop(0, 0, imgData1.data, imgData2.data,
                                    img1.width, img1.height, img2.width) ]
    IN  PutImageData(canvas, combined1)

(***************************************************************************)
(* Inputs.                                                                 *)
(***************************************************************************)
Variants == { "stretch", "fit" }

MaxSide == 3

\* natural sizes of the files: every small size, and sizes that scale to a
\* half, to zero, or as the README's own examples do
SampleSizes ==
    { << 200, 100 >>, << 640, 480 >>, << 11, 120 >>, << 18, 7 >>, << 14, 3 >>,
      << 1000, 1 >>, << 1, 1000 >>, << 5, 4 >> }

NaturalSizes == ((1..MaxSide) \X (1..MaxSide)) \cup SampleSizes

Targets ==
    ((1..MaxSide) \X (1..MaxSide))
    \cup { << 100, 100 >>, << 100, 10 >>, << 9, 5 >>, << 35, 20 >>, << 400, 300 >> }

\* pixels: opaque red, opaque blue, and a half-transparent one
Palette == { << 255, 0, 0, 255 >>, << 0, 0, 255, 255 >>, << 1, 64, 128, 128 >> }

MaxPixels == 4

ImageSizes == { s \in (1..MaxPixels) \X (1..MaxPixels) : s[1] * s[2] <= MaxPixels }

MakeImage(s, f) ==
    [ width |-> s[1], height |-> s[2],
      data |-> [ k \in 1..(4 * s[1] * s[2]) |-> f[((k - 1) \div 4) + 1][((k - 1) % 4) + 1] ] ]

Images == UNION { { MakeImage(s, f) : f \in [ 1..(s[1] * s[2]) -> Palette ] } : s \in ImageSizes }

(***************************************************************************)
(* State.                                                                  *)
(***************************************************************************)
VARIABLES
    pc,          \* what the program awaits
    variant,     \* "stretch" or "fit"
    natural,     \* the natural size of the file at each path
    target,      \* the target size of a single call of loadAndResizeImage
    decodes,     \* the decodings so far: [path, ok]
    img,         \* img1, img2 of processImages / run
    common,      \* << commonWidth, commonHeight >>
    calls,       \* the calls of loadAndResizeImage so far
    resized,     \* img1Resized, img2Resized
    combined,    \* imgCombined
    saveInvoked, \* saveImage was called
    written,     \* the PNG stream finished
    error,       \* the error thrown, if any
    reported,    \* what run's catch printed
    cIn1, cIn2,  \* the arguments of a single call of combineImages
    cOut         \* its result

vars == << pc, variant, natural, target, decodes, img, common, calls, resized,
           combined, saveInvoked, written, error, reported, cIn1, cIn2, cOut >>

NoSize == << -1, -1 >>

Idle ==
    /\ decodes = << >> /\ img = << >> /\ common = NoSize /\ calls = << >>
    /\ resized = << >> /\ combined = NoCanvas /\ saveInvoked = FALSE
    /\ written = FALSE /\ error = NoError /\ reported = NoError

(***************************************************************************)
(* The program: processImages / run.  Each action is what runs when one    *)
(* awaited promise settles, up to the next await.                          *)
(***************************************************************************)
InitRun ==
    /\ pc = "await1"
    /\ variant \in Variants
    /\ natural \in NaturalSizes \X NaturalSizes
    /\ target = NoSize
    /\ Idle
    /\ cIn1 = NoImage /\ cIn2 = NoImage /\ cOut = NoImage

\* a rejection leaves the async function; run's catch, which only the
\* stretch variant has, prints the message
Fail(e) ==
    /\ pc' = "failed"
    /\ error' = e
    /\ reported' = IF variant = "stretch" THEN e ELSE NoError

\* the first awaited operation on `path`: the stretch variant decodes the
\* file, the fit variant fits it into the 400x300 box
First(path, ok) ==
    IF variant = "stretch" THEN LoadImageWithPath(path, natural[path], ok)
    ELSE LoadAndResizeImage(variant, path, natural[path], ok, BoxWidth, BoxHeight)

FirstCalls(path, res) ==
    IF variant = "stretch" THEN calls
    ELSE Append(calls, CallRecord(path, BoxWidth, BoxHeight, res))

Await1 ==
    /\ pc = "await1"
    /\ \E ok \in BOOLEAN : \E res \in { First(1, ok) } :
            /\ decodes' = Append(decodes, [ path |-> 1, ok |-> ok ])
            /\ calls' = FirstCalls(1, res)
            /\ IF res.error # NoError
               THEN Fail(res.error) /\ UNCHANGED img
               ELSE /\ img' = Append(img, res.canvas)
                    /\ pc' = "await2"
                    /\ UNCHANGED << error, reported >>
    /\ UNCHANGED << variant, natural, target, common, resized, combined,
                    saveInvoked, written, cIn1, cIn2, cOut >>

Await2 ==
    /\ pc = "await2"
    /\ \E ok \in BOOLEAN : \E res \in { First(2, ok) } :
            /\ decodes' = Append(decodes, [ path |-> 2, ok |-> ok ])
            /\ calls' = FirstCalls(2, res)
            /\ IF res.error # NoError
               THEN Fail(res.error) /\ UNCHANGED << img, common >>
               ELSE /\ img' = Append(img, res.canvas)
                    /\ common' = CommonSize(img[1], res.canvas)
                    /\ pc' = "await3"
                    /\ UNCHANGED << error, reported >>
    /\ UNCHANGED << variant, natural, target, resized, combined,
                    saveInvoked, written, cIn1, cIn2, cOut >>

Await3 ==
    /\ pc = "await3"
    /\ \E ok \in BOOLEAN :
        \E res \in { LoadAndResizeImage(variant, 1, natural[1], ok, common[1], common[2]) } :
            /\ decodes' = Append(decodes, [ path |-> 1, ok |-> ok ])
            /\ calls' = Append(calls, CallRecord(1, common[1], common[2], res))
            /\ IF res.error # NoError
               THEN Fail(res.error) /\ UNCHANGED resized
               ELSE /\ resized' = Append(resized, res.canvas)
                    /\ pc' = "await4"
                    /\ UNCHANGED << error, reported >>
    /\ UNCHANGED << variant, natural, target, img, common, combined,
                    saveInvoked, written, cIn1, cIn2, cOut >>

\* the second resize settles; combineImages and saveImage follow at once
Await4 ==
    /\ pc = "await4"
    /\ \E ok \in BOOLEAN :
        \E res \in { LoadAndResizeImage(variant, 2, natural[2], ok, common[1], common[2]) } :
        \E cmb \in { CombineSizes(resized[1], res.canvas) } :
            /\ decodes' = Append(decodes, [ path |-> 2, ok |-> ok ])
            /\ calls' = Append(calls, CallRecord(2, common[1], common[2], res))
            /\ IF res.error # NoError
               THEN Fail(res.error) /\ UNCHANGED << resized, combined, saveInvoked >>
               ELSE /\ resized' = Append(resized, res.canvas)
                    /\ IF cmb.error # NoError
                       THEN Fail(cmb.error) /\ UNCHANGED << combined, saveInvoked >>
                       ELSE /\ combined' = cmb.canvas
                            /\ saveInvoked' = TRUE
                            /\ pc' = "writing"
                            /\ UNCHANGED << error, reported >>
    /\ UNCHANGED << variant, natural, target, img, common, written, cIn1, cIn2, cOut >>

\* the write stream's 'finish' event
PngFinish ==
    /\ pc = "writing"
    /\ written' = TRUE
    /\ pc' = "done"
    /\ UNCHANGED << variant, natural, target, decodes, img, common, calls, resized,
                    combined, saveInvoked, error, reported, cIn1, cIn2, cOut >>

NextRun == Await1 \/ Await2 \/ Await3 \/ Await4 \/ PngFinish

SpecRun == InitRun /\ [][NextRun]_vars

(***************************************************************************)
(* One call of loadAndResizeImage with any positive target size.           *)
(***************************************************************************)
InitResize ==
    /\ pc = "call"
    /\ variant \in Variants
    /\ natural \in { << s >> : s \in NaturalSizes }
    /\ target \in Targets
    /\ Idle
    /\ cIn1 = NoImage /\ cIn2 = NoImage /\ cOut = NoImage

ResizeCall ==
    /\ pc = "call"
    /\ cIn1 = NoImage
    /\ \E ok \in BOOLEAN :
        \E res \in { LoadAndResizeImage(variant, 1, natural[1], ok, target[1], target[2]) } :
            /\ decodes' = Append(decodes, [ path |-> 1, ok |-> ok ])
            /\ calls' = Append(calls, CallRecord(1, target[1], target[2], res))
            /\ resized' = IF res.error = NoError THEN << res.canvas >> ELSE << >>
            /\ error' = res.error
    /\ pc' = "returned"
    /\ UNCHANGED << variant, natural, target, img, common, combined, saveInvoked,
                    written, reported, cIn1, cIn2, cOut >>

SpecResize == InitResize /\ [][ResizeCall]_vars

(***************************************************************************)
(* One call of combineImages on two canvases with pixels.                  *)
(***************************************************************************)
InitCombine ==
    /\ pc = "call"
    /\ variant = "stretch"
    /\ natural = << >>
    /\ target = NoSize
    /\ Idle
    /\ cIn1 \in Images
    /\ cIn2 \in Images
    /\ cOut = NoImage

CombineCall ==
    /\ pc = "call"
    /\ cIn1 # NoImage
    /\ cOut' = CombineImages(cIn1, cIn2)
    /\ pc' = "returned"
    /\ UNCHANGED << variant, natural, target, decodes, img, common, calls, resized,
                    combined, saveInvoked, written, error, reported, cIn1, cIn2 >>

SpecCombine == InitCombine /\ [][CombineCall]_vars

Spec == SpecRun

(***************************************************************************)
(* Properties.                                                             *)
(***************************************************************************)
\* the pixel a script reads at column x, row y of a canvas
Pixel(canvas, x, y) ==
    LET d == GetImageData(canvas).data
        i == (y * canvas.width + x) * 4
    IN  << d[i + 1], d[i + 2], d[i + 3], d[i + 4] >>

SameSize(a, b) == a.width = b.width /\ a.height = b.height

\* the pixel the claim C1 expects at (x, y)
Interleaved(a, b, x, y) ==
    IF x % 2 = 0
    THEN << Pixel(b, x, y)[1], Pixel(b, x, y)[2], Pixel(b, x, y)[3], Pixel(a, x, y)[4] >>
    ELSE Pixel(a, x, y)

Returned == pc = "returned" /\ cOut # NoImage

\* C1: on equally sized inputs the result has img1's size and as many
\* bytes; at an even column, the last column of an odd width included, it
\* has img2's red, green, blue and img1's alpha, at an odd column img1's
\* pixel
C1_Interleaved ==
    (Returned /\ SameSize(cIn1, cIn2)) =>
        /\ SameSize(cOut, cIn1)
        /\ Len(cOut.data) = 4 * cIn1.width * cIn1.height
        /\ \A x \in 0..(cIn1.width - 1) : \A y \in 0..(cIn1.height - 1) :
              /\ Pixel(cOut, x, y) = Interleaved(cIn1, cIn2, x, y)
              /\ Pixel(cOut, x, y)[4] = Pixel(cIn1, x, y)[4]
              /\ x % 2 = 1 => Pixel(cOut, x, y) = Pixel(cIn1, x, y)

\* C1's case: width 3, the last (even) column taken from a differently
\* coloured img2 with img1's alpha kept, the odd column left as img1's
C1_Witness ==
    /\ Returned /\ SameSize(cIn1, cIn2)
    /\ cIn1.width = 3 /\ cIn1.height = 1
    /\ Pixel(cIn1, 2, 0) = << 255, 0, 0, 255 >>
    /\ Pixel(cIn2, 2, 0) = << 1, 64, 128, 128 >>
    /\ Pixel(cOut, 2, 0) = << 1, 64, 128, 255 >>
    /\ Pixel(cIn1, 1, 0) = << 255, 0, 0, 255 >>
    /\ Pixel(cIn2, 1, 0) = << 0, 0, 255, 255 >>
    /\ Pixel(cOut, 1, 0) = << 255, 0, 0, 255 >>

\* C2: on inputs of different sizes combineImages fails with
\* DimensionMismatch and returns no image
C2_MismatchRejected ==
    (pc = "returned" /\ cIn1 # NoImage /\ ~SameSize(cIn1, cIn2)) =>
        /\ cOut = NoImage
        /\ error.kind = "DimensionMismatch"

FitCall == pc = "returned" /\ variant = "fit" /\ resized # << >>

\* C3: the fit variant's canvas is no wider and no higher than the box, and
\* exactly one side equals the box's unless the aspect ratios are equal
C3_FitsBox ==
    FitCall =>
        /\ resized[1].width <= target[1]
        /\ resized[1].height <= target[2]
        /\ natural[1][1] * target[2] # natural[1][2] * target[1] =>
              (resized[1].width = target[1]) # (resized[1].height = target[2])

\* C4: the stretch variant's canvas has exactly the requested size, whatever
\* the source's size
C4_StretchExact ==
    (pc = "returned" /\ variant = "stretch" /\ resized # << >>) =>
        /\ resized[1].width = target[1]
        /\ resized[1].height = target[2]

C4_Witness ==
    /\ pc = "returned" /\ variant = "stretch" /\ resized # << >>
    /\ natural[1] = << 200, 100 >>
    /\ target = << 9, 5 >>
    /\ resized[1] = [ width |-> 9, height |-> 5 ]

MinWidth == Min(natural[1][1], natural[2][1])

MinHeight == Min(natural[1][2], natural[2][2])

\* C5: in the stretch pipeline both calls of loadAndResizeImage get the
\* target (min(w1,w2), min(h1,h2)), and both canvases passed to
\* combineImages and the combined canvas have that size
C5_CommonIsMin ==
    variant = "stretch" =>
        /\ \A i \in 1..Len(calls) :
              calls[i].targetWidth = MinWidth /\ calls[i].targetHeight = MinHeight
        /\ \A i \in 1..Len(resized) :
              resized[i] = [ width |-> MinWidth, height |-> MinHeight ]
        /\ combined # NoCanvas =>
              /\ Len(resized) = 2 /\ Len(calls) = 2
              /\ combined = [ width |-> MinWidth, height |-> MinHeight ]

C5_Witness ==
    /\ variant = "stretch" /\ pc = "done"
    /\ natural = << << 200, 100 >>, << 11, 120 >> >>
    /\ Len(calls) = 2
    /\ combined = [ width |-> 11, height |-> 100 ]

\* C6: a call of loadAndResizeImage with a target width or height <= 0, on a
\* file that decodes, fails with InvalidDimensions before a canvas is created
C6_InvalidRejected ==
    \A i \in 1..Len(calls) :
        ( /\ calls[i].targetWidth <= 0 \/ calls[i].targetHeight <= 0
          /\ calls[i].error.kind \notin { "loadImage rejection",
                                          "Failed to load image from" } ) =>
            /\ calls[i].error.kind = "InvalidDimensions"
            /\ calls[i].canvas = NoCanvas

\* C7: combineImages of an image with itself has its size and, byte for
\* byte, its pixels
C7_SelfCombine ==
    (Returned /\ cIn1 = cIn2) =>
        /\ SameSize(cOut, cIn1)
        /\ Len(cOut.data) = Len(cIn1.data)
        /\ \A k \in 1..Len(cIn1.data) :
              GetImageData(cOut).data[k] = GetImageData(cIn1).data[k]

\* C7's case: a 2x2 image of three different pixels, one of them
\* half-transparent, combined with itself
C7_Witness ==
    /\ Returned /\ cIn1 = cIn2
    /\ cIn1.width = 2 /\ cIn1.height = 2
    /\ Pixel(cIn1, 0, 0) = << 255, 0, 0, 255 >>
    /\ Pixel(cIn1, 1, 0) = << 0, 0, 255, 255 >>
    /\ Pixel(cIn1, 0, 1) = << 1, 64, 128, 128 >>
    /\ Pixel(cIn1, 1, 1) = << 255, 0, 0, 255 >>
    /\ Pixel(cOut, 0, 1) = << 1, 64, 128, 128 >>
    /\ Pixel(cOut, 1, 0) = << 0, 0, 255, 255 >>

\* n / d rounded to the nearest integer, a half going up, in exact arithmetic
RoundDiv(n, d) == (2 * n + d) \div (2 * d)

\* n / d lies exactly halfway between two integers
IsTie(n, d) == (2 * n) % d = 0 /\ ((2 * n) \div d) % 2 = 1

\* C8 as stated: the size in exact arithmetic
C8_Original ==
    FitCall =>
        LET sw == natural[1][1]
            sh == natural[1][2]
        IN  IF sw > sh
            THEN /\ resized[1].width = target[1]
                 /\ resized[1].height = RoundDiv(target[1] * sh, sw)
            ELSE /\ resized[1].width = RoundDiv(target[2] * sw, sh)
                 /\ resized[1].height = target[2]

\* C8 amended: the size is computed in double arithmetic from
\* aspectRatio = sw / sh; it is the exactly rounded size unless the exact
\* quotient is halfway between two integers, where it may be the lower one.
\* A square source has width targetHeight; 200x100 in 100x100 gives 100x50.
C8_FitSize ==
    FitCall =>
        LET sw == natural[1][1]
            sh == natural[1][2]
            w  == resized[1].width
            h  == resized[1].height
        IN  /\ IF sw > sh
               THEN /\ w = target[1]
                    /\ IF IsTie(target[1] * sh, sw)
                       THEN h \in { RoundDiv(target[1] * sh, sw) - 1,
                                    RoundDiv(target[1] * sh, sw) }
                       ELSE h = RoundDiv(target[1] * sh, sw)
               ELSE /\ h = target[2]
                    /\ IF IsTie(target[2] * sw, sh)
                       THEN w \in { RoundDiv(target[2] * sw, sh) - 1,
                                    RoundDiv(target[2] * sw, sh) }
                       ELSE w = RoundDiv(target[2] * sw, sh)
            /\ sw = sh => w = target[2] /\ h = target[2]
            /\ (sw = 200 /\ sh = 100 /\ target = << 100, 100 >>) => (w = 100 /\ h = 50)

\* C8's case: a halfway quotient (9 * 7 / 18 = 3.5) that the double
\* arithmetic rounds down
C8_Witness ==
    /\ FitCall
    /\ natural[1] = << 18, 7 >> /\ target[1] = 9
    /\ resized[1].width = 9
    /\ resized[1].height = 3
    /\ RoundDiv(9 * 7, 18) = 4

\* C9: in the stretch pipeline saveImage is called only after four
\* successful decodings (each path twice), both resizes and combineImages;
\* a failed decoding is reported with its path, and nothing runs after it
C9_SaveOnlyAfterAll ==
    variant = "stretch" =>
        /\ \A k \in 1..Len(decodes) : decodes[k].path = IF k % 2 = 1 THEN 1 ELSE 2
        /\ saveInvoked =>
              /\ Len(decodes) = 4
              /\ \A k \in 1..4 : decodes[k].ok
              /\ Len(img) = 2 /\ Len(resized) = 2
              /\ combined # NoCanvas
              /\ error = NoError /\ reported = NoError
        /\ written => saveInvoked
        /\ \A k \in 1..Len(decodes) :
              ~decodes[k].ok =>
                  /\ k = Len(decodes)
                  /\ pc = "failed"
                  /\ error = [ kind |-> "Failed to load image from", path |-> decodes[k].path ]
                  /\ reported = error
                  /\ Len(img) = Min(k - 1, 2)
                  /\ Len(resized) = IF k = 4 THEN 1 ELSE 0
                  /\ combined = NoCanvas
                  /\ ~saveInvoked /\ ~written

\* the second decoding of the second path fails
C9_Witness ==
    /\ variant = "stretch" /\ pc = "failed"
    /\ Len(decodes) = 4 /\ ~decodes[4].ok
    /\ reported.path = 2
    /\ Len(resized) = 1
    /\ ~saveInvoked

\* every index combineImages reads in imgData2 lies inside it
ReadsInside(img1, img2) ==
    \A x \in { c \in 0..(img1.width - 1) : c % 2 = 0 } : \A y \in 0..(img1.height - 1) :
        Index2(x, y, img2.width) + 2 < img2.width * img2.height * 4

\* C10: in the fit pipeline the two canvases that combineImages combined
\* have the same width and height, so every read of the second stays inside it
C10_SameSize ==
    (variant = "fit" /\ Len(resized) = 2 /\ combined # NoCanvas) =>
        /\ resized[1].width = resized[2].width
        /\ resized[1].height = resized[2].height
        /\ ReadsInside(resized[1], resized[2])
====
